---- MODULE Spec2Model ----
(***************************************************************************)
(* Model of the small-axe directory tree walker.                           *)
(*                                                                         *)
(*   Spec     the lazy stack-of-frames walker, TreeIterator, of            *)
(*            src/core/tree.rs: one action per call of next().             *)
(*   SpecNew  the eager recursive builder, DirTree::new, of                *)
(*            src/entities/dir.rs: one action per directory entry          *)
(*            processed and one per return.                                *)
(*   SpecPattern  the name-pattern matcher, Pattern, of                    *)
(*            src/core/pattern.rs: one action per call of parse and of     *)
(*            is_match.                                                    *)
(*                                                                         *)
(* The file system is a finite hierarchy of nodes.  A node id stands for   *)
(* the stable identity (device id, inode) of the node.  Names are          *)
(* sequences of character codes.                                           *)
(***************************************************************************)
EXTENDS Integers, Sequences, FiniteSets, TLC

VARIABLES
    fs,           \* the nodes that exist in the hierarchy walked
    opts,         \* UserFlags / Flags: the traversal configuration
    start,        \* TreeIterator.start: TRUE while the root is pending
    dirent_list,  \* TreeIterator.dirent_list: stack of frames (remaining items)
    depth,        \* TreeIterator.depth
    visited,      \* visited-identity set of the walker
    panic,        \* "none", or the panic that aborted the process
    yielded,      \* history: the Some((remaining, dent)) results, in order
    endAt,        \* history: Len(yielded) at the first None result, -1 before
    extraCalls,   \* history: calls of next() made after the first None result
    pushed,       \* history: every frame pushed, as [dir, depth, frame]
    newStack,     \* DirTree::new: the chain of active calls
    newResult,    \* DirTree::new: "idle", "running", "some", "none" or "overflow"
    newTree,      \* DirTree::new: the tree returned, flattened in display order
    pattern_parser, \* the Pattern handed to the traversal, or the call of
                  \* Pattern::parse under way: text, inclusive, status
                  \* ("idle", "pattern" or "panic") and the tokens compiled
    matching,     \* the last call of Pattern::is_match: value and result
    faults,       \* the file system's failures: the directories whose read
                  \* fails and the entries whose metadata cannot be had
    env_args      \* the call of process_opts / process_args: input, output

vars == <<fs, opts, start, dirent_list, depth, visited, panic, yielded,
          endAt, extraCalls, pushed, newStack, newResult, newTree,
          pattern_parser, matching, faults, env_args>>

walkerVars == <<start, dirent_list, depth, visited, panic, yielded, endAt,
                extraCalls, pushed>>
builderVars == <<newStack, newResult, newTree>>
patternVars == <<pattern_parser, matching>>
envVars == <<faults, env_args>>

-----------------------------------------------------------------------------
(* Bounds of the model *)

\* max_depth ranges over None and 0 .. MaxDepthOpt
MaxDepthOpt == 2

\* hierarchies have at most MaxNodes nodes, the root included
MaxNodes == 5

\* calls of next() made after the first None result
MaxExtraCalls == 1

-----------------------------------------------------------------------------
(* The file system *)

\* Option::None of max_depth: Option<usize>
NoneVal == -1

Root == 1

\* name, kind, parent and (for a symlink) target identity of every node of
\* the universe the hierarchies are drawn from.  mtime: modification time.
\*    r/                       1
\*    r/z/                     2
\*    r/b.txt                  3
\*    r/a.txt                  4
\*    r/.h/                    5
\*    r/.h/c                   6
\*    r/z/.a                   7
\*    r/z/a                    8
\*    r/z/y/                   9
\*    r/z/y/k                  10
\*    r/z/y/up -> r/z          11
\*    r/z/s    -> r/.h         12
NodeTable ==
    << [name |-> <<114>>,                 kind |-> "dir",     parent |-> 0, target |-> 0, mtime |-> 5],
       [name |-> <<122>>,                 kind |-> "dir",     parent |-> 1, target |-> 0, mtime |-> 2],
       [name |-> <<98, 46, 116, 120, 116>>, kind |-> "file",  parent |-> 1, target |-> 0, mtime |-> 1],
       [name |-> <<97, 46, 116, 120, 116>>, kind |-> "file",  parent |-> 1, target |-> 0, mtime |-> 1],
       [name |-> <<46, 104>>,             kind |-> "dir",     parent |-> 1, target |-> 0, mtime |-> 3],
       [name |-> <<99>>,                  kind |-> "file",    parent |-> 5, target |-> 0, mtime |-> 4],
       [name |-> <<46, 97>>,              kind |-> "file",    parent |-> 2, target |-> 0, mtime |-> 2],
       [name |-> <<97>>,                  kind |-> "file",    parent |-> 2, target |-> 0, mtime |-> 2],
       [name |-> <<121>>,                 kind |-> "dir",     parent |-> 2, target |-> 0, mtime |-> 1],
       [name |-> <<107>>,                 kind |-> "file",    parent |-> 9, target |-> 0, mtime |-> 3],
       [name |-> <<117, 112>>,            kind |-> "symlink", parent |-> 9, target |-> 2, mtime |-> 4],
       [name |-> <<115>>,                 kind |-> "symlink", parent |-> 2, target |-> 5, mtime |-> 3] >>

Nodes == 1 .. Len(NodeTable)

NameOf(n) == NodeTable[n].name
KindOf(n) == NodeTable[n].kind
ParentOf(n) == NodeTable[n].parent
TargetOf(n) == NodeTable[n].target
MTimeOf(n) == NodeTable[n].mtime

\* a hierarchy: a set of nodes holding the root, the parent of each of its
\* nodes and the target of each of its symlinks
IsHierarchy(S) ==
    /\ Root \in S
    /\ \A n \in S \ {Root} : ParentOf(n) \in S
    /\ \A n \in S : KindOf(n) = "symlink" => TargetOf(n) \in S

Hierarchies == {S \in SUBSET Nodes : IsHierarchy(S) /\ Cardinality(S) <= MaxNodes}

\* the entries a read of directory d returns, as a set
ChildrenOf(d, S) == {n \in S : ParentOf(n) = d}

\* every order in which a directory read can return the entries of S
RECURSIVE ReadOrders(_)
ReadOrders(S) ==
    IF S = {} THEN {<<>>}
    ELSE UNION {{<<x>> \o p : p \in ReadOrders(S \ {x})} : x \in S}

Last(s) == s[Len(s)]

-----------------------------------------------------------------------------
(* Configuration *)

MaxDepthValues == {NoneVal} \cup (0 .. MaxDepthOpt)

Configurations ==
    [all : BOOLEAN, dirs : BOOLEAN, dirs_first : BOOLEAN,
     reverse_alpha_sort : BOOLEAN, last_modified_sort : BOOLEAN,
     follow_symlinks : BOOLEAN, prune : BOOLEAN, max_depth : MaxDepthValues]

-----------------------------------------------------------------------------
(* The pattern matcher, Pattern of src/core/pattern.rs.  Texts and         *)
(* candidates are sequences of code points.                                *)

\* pattern texts are drawn over PatternChars up to this length
MaxPatLen == 3

\* contents of a bracket group are drawn over GroupChars up to this length
MaxGroupLen == 3

\* candidates are drawn over ValueChars up to this length
MaxValueLen == 2

STAR == 42
QMARK == 63
LBRACKET == 91
RBRACKET == 93
HYPHEN == 45
BANG == 33
BAR == 124

\* char::is_ascii_alphanumeric
is_ascii_alphanumeric(c) ==
    \/ c \in 48 .. 57
    \/ c \in 65 .. 90
    \/ c \in 97 .. 122

\* PatternType: OneOrMore, One, OneOf(set), NotOneOf(set), Literal(char)
OneOrMore == [type |-> "OneOrMore", chars |-> {}]
One == [type |-> "One", chars |-> {}]
OneOf(char_set) == [type |-> "OneOf", chars |-> char_set]
NotOneOf(char_set) == [type |-> "NotOneOf", chars |-> char_set]
Literal(ch) == [type |-> "Literal", chars |-> {ch}]

\* Option<Vec<char>>: None is <<>>, Some(v) is <<v>>
NoGroup == <<>>
SomeGroup(v) == <<v>>
is_some(g) == g # <<>>
unwrap(g) == g[1]

\* the Vec collected from (lo as u32 ..= hi as u32)
RangeValsHalfOpen(lo, hi) == [i \in 1 .. (IF hi > lo THEN hi - lo ELSE 0) |-> lo + i - 1]
RangeVals(lo, hi) == [i \in 1 .. (IF hi >= lo THEN hi - lo + 1 ELSE 0) |-> lo + i - 1]

\* into_iter().collect::<HashSet<_>>()
CharSet(v) == {v[i] : i \in DOMAIN v}

\* the state of Pattern::parse before the first character is read
ParseStart ==
    [pos |-> 1, mapped_pattern |-> <<>>, active_group |-> NoGroup,
     is_exclusive |-> FALSE, panicked |-> FALSE]

\* the `']'` arm
ParseClose(st) ==
    IF ~is_some(st.active_group) THEN [st EXCEPT !.panicked = TRUE]
    ELSE LET char_set == CharSet(unwrap(st.active_group))
         IN [st EXCEPT !.pos = @ + 1,
                       !.active_group = NoGroup,
                       !.is_exclusive = FALSE,
                       !.mapped_pattern =
                           Append(@, IF st.is_exclusive THEN NotOneOf(char_set)
                                     ELSE OneOf(char_set))]

\* the `'-' if active_group.is_some()` arm: the previous character of the
\* group is popped; an alphanumeric one starts a range that takes the next
\* character of the text as its end, any other one is replaced by the hyphen
ParseHyphen(text, st) ==
    LET group == unwrap(st.active_group)
    IN IF group = <<>> THEN [st EXCEPT !.panicked = TRUE]
       ELSE LET previous_char == group[Len(group)]
                rest == SubSeq(group, 1, Len(group) - 1)
            IN IF is_ascii_alphanumeric(previous_char)
               THEN IF st.pos + 1 > Len(text) THEN [st EXCEPT !.panicked = TRUE]
                    ELSE [st EXCEPT !.pos = @ + 2,
                                    !.active_group = SomeGroup(rest \o
                                        RangeVals(previous_char, text[st.pos + 1]))]
               ELSE [st EXCEPT !.pos = @ + 1,
                               !.active_group = SomeGroup(Append(rest, HYPHEN))]

\* one turn of the `while let Some(ch) = chars_iter.next()` loop
ParseChar(text, st) ==
    LET ch == text[st.pos]
        peek_is_bracket == st.pos + 1 <= Len(text) /\ text[st.pos + 1] = LBRACKET
    IN IF ch = STAR
       THEN [st EXCEPT !.pos = @ + 1, !.mapped_pattern = Append(@, OneOrMore)]
       ELSE IF ch = QMARK
       THEN [st EXCEPT !.pos = @ + 1, !.mapped_pattern = Append(@, One)]
       ELSE IF ch = LBRACKET /\ ~is_some(st.active_group)
       THEN [st EXCEPT !.pos = @ + 1, !.active_group = SomeGroup(<<>>)]
       ELSE IF ch = RBRACKET THEN ParseClose(st)
       ELSE IF ch = HYPHEN /\ is_some(st.active_group) THEN ParseHyphen(text, st)
       ELSE IF ch = BANG /\ peek_is_bracket
       THEN [st EXCEPT !.pos = @ + 1, !.is_exclusive = TRUE]
       ELSE IF ch = BAR /\ is_some(st.active_group)
       THEN [st EXCEPT !.pos = @ + 1]
       ELSE IF is_some(st.active_group)
       THEN [st EXCEPT !.pos = @ + 1,
                       !.active_group = SomeGroup(Append(unwrap(@), ch))]
       ELSE [st EXCEPT !.pos = @ + 1, !.mapped_pattern = Append(@, Literal(ch))]

\* the loop of Pattern::parse, to the end of the text or to a panic
RECURSIVE ParseFrom(_, _)
ParseFrom(text, st) ==
    IF st.panicked \/ st.pos > Len(text) THEN st
    ELSE ParseFrom(text, ParseChar(text, st))

\* Pattern::parse(pattern, is_inclusive): the Pattern returned, or the panic
parse(text, is_inclusive) ==
    LET st == ParseFrom(text, ParseStart)
    IN [text |-> text, inclusive |-> is_inclusive,
        status |-> IF st.panicked THEN "panic" ELSE "pattern",
        pattern |-> IF st.panicked THEN <<>> ELSE st.mapped_pattern]

\* Pattern::match_single
match_singleNeverOneOrMore(ch, pattern) ==
    IF pattern.type = "OneOf" THEN ch \in pattern.chars
    ELSE IF pattern.type = "NotOneOf" THEN ch \notin pattern.chars
    ELSE IF pattern.type = "Literal" THEN pattern.chars = {ch}
    ELSE pattern.type # "OneOrMore"
match_single(ch, pattern) ==
    IF pattern.type = "OneOf" THEN ch \in pattern.chars
    ELSE IF pattern.type = "NotOneOf" THEN ch \notin pattern.chars
    ELSE IF pattern.type = "Literal" THEN pattern.chars = {ch}
    ELSE TRUE

\* val_chars.next() is None
ExhaustedUnlessOneOrMore(value, vi, pattern) ==
    vi > Len(value) /\ pattern.type # "OneOrMore"
Exhausted(value, vi, pattern) == vi > Len(value)

\* the character at index vi, or 0 past the end
CharAt(value, vi) == IF vi \in DOMAIN value THEN value[vi] ELSE 0

\* `for ch in val_chars.by_ref()` of the OneOrMore arm: vi is the index of
\* the character the loop turn has taken for the OneOrMore; the result is
\* the index of the first later character that next_pattern matches, or 0
OneOrMoreSkipFromTaken(value, vi, next_pattern) ==
    LET hits == {k \in vi .. Len(value) :
                    match_single(value[k], next_pattern)}
    IN IF hits = {} THEN 0 ELSE CHOOSE k \in hits : \A m \in hits : k <= m
OneOrMoreSkip(value, vi, next_pattern) ==
    LET hits == {k \in (vi + 1) .. Len(value) :
                    match_single(value[k], next_pattern)}
    IN IF hits = {} THEN 0 ELSE CHOOSE k \in hits : \A m \in hits : k <= m

\* the `while let Some(pattern) = pattern_iter.next()` loop of is_match,
\* from token pi and candidate index vi: whether it ends with is_match true
\* and the index of the first character it has not taken
RECURSIVE MatchFrom(_, _, _, _)
MatchFrom(tokens, value, pi, vi) ==
    IF pi > Len(tokens) THEN [is_match |-> TRUE, pos |-> vi]
    ELSE IF Exhausted(value, vi, tokens[pi]) THEN [is_match |-> FALSE, pos |-> vi]
    ELSE IF tokens[pi].type = "OneOrMore" /\ pi < Len(tokens)
         THEN LET k == OneOrMoreSkip(value, vi, tokens[pi + 1])
              IN IF k = 0 THEN [is_match |-> FALSE, pos |-> Len(value) + 1]
                 ELSE MatchFrom(tokens, value, pi + 2, k + 1)
    ELSE IF match_single(CharAt(value, vi), tokens[pi])
         THEN MatchFrom(tokens, value, pi + 1, vi + 1)
    ELSE [is_match |-> FALSE, pos |-> vi + 1]

\* Pattern::is_match
is_match(tokens, value) == MatchFrom(tokens, value, 1, 1).is_match

\* every sequence over chars of length at most n
RECURSIVE SeqsUpTo(_, _)
SeqsUpTo(chars, n) ==
    IF n = 0 THEN {<<>>}
    ELSE LET shorter == SeqsUpTo(chars, n - 1)
         IN shorter \cup {Append(s, c) : s \in {t \in shorter : Len(t) = n - 1},
                                          c \in chars}

\* a c * ?
PatternChars == {97, 99, STAR, QMARK}
\* a c _ - | ! [
GroupChars == {97, 99, 95, HYPHEN, BAR, BANG, LBRACKET}
\* a c _
ValueChars == {97, 99, 95}
\* the candidates of one character that tell the bracket groups apart:
\* a b c d _ - | ! [
SingleChars == {97, 98, 99, 100, 95, HYPHEN, BAR, BANG, LBRACKET}

\* the texts of the unit tests of pattern.rs and of the design document
ExampleTexts ==
    { <<97, 42, 99>>,                                         \* a*c
      <<97, 98, 99, 42>>,                                     \* abc*
      <<97, 95, 98, 42>>,                                     \* a_b*
      <<97, 42, 99, 100>>,                                    \* a*cd
      <<97, 91, 98, 108, 106, 107, 95, 93, 99>>,              \* a[bljk_]c
      <<97, 91, 98, 108, 106, 107, 95, 45, 93, 99>>,          \* a[bljk_-]c
      <<91, 98, 108, 106, 107, 95, 45, 93>>,                  \* [bljk_-]
      <<97, 91, 98, 45, 107, 93, 99>>,                        \* a[b-k]c
      <<97, 91, 98, 45, 107, 124, 48, 45, 57, 93, 99>>,       \* a[b-k|0-9]c
      <<97, 33, 91, 98, 45, 107, 93, 99>>,                    \* a![b-k]c
      <<91, 97, 45, 99, 68, 45, 70, 48, 45, 53, 93>>,         \* [a-cD-F0-5]
      <<33, 91, 97, 45, 99, 93, 91, 97, 45, 99, 93>>,         \* ![a-c][a-c]
      <<91, 97, 45, 122, 124, 48, 45, 57, 93>>,               \* [a-z|0-9]
      <<99, 116, 120, 45, 91, 97, 45, 99, 93, 63, 63, 95, 116, 42>>,
                                                              \* ctx-[a-c]??_t*
      <<99, 116, 120, 45, 42, 45, 91, 97, 45, 99, 93, 63, 63, 95, 116, 42>>
                                                              \* ctx-*-[a-c]??_t*
    }

\* the candidates of the unit tests and of the design document
ExampleValues ==
    { <<97, 99>>,                                             \* ac
      <<97, 98, 99>>,                                         \* abc
      <<97, 95, 98, 95, 99>>,                                 \* a_b_c
      <<97, 95, 98, 95, 108, 95, 106, 95, 107, 95, 99>>,      \* a_b_l_j_k_c
      <<97, 95, 99>>,                                         \* a_c
      <<97, 95, 99, 95, 99, 100>>,                            \* a_c_cd
      <<97, 45, 99>>,                                         \* a-c
      <<97, 106, 99>>,                                        \* ajc
      <<97, 108, 99>>,                                        \* alc
      <<97, 55, 99>>,                                         \* a7c
      <<99, 116, 120, 45, 98, 99, 99, 95, 116>>,              \* ctx-bcc_t
      <<99, 116, 120, 45, 98, 99, 99, 95, 116, 114, 101, 115, 116>>,
                                                              \* ctx-bcc_trest
      <<99, 116, 120, 45, 113, 114, 115, 45, 98, 99, 99, 95, 116, 114, 101,
        115, 116>>,                                           \* ctx-qrs-bcc_trest
      <<99, 116, 120, 45, 113, 114, 115, 98, 99, 99, 95, 116, 114, 101, 115,
        116, 45>>                                             \* ctx-qrsbcc_trest-
    }

\* one bracket group, closed or left open, plain or after `!`
GroupTexts ==
    LET contents == SeqsUpTo(GroupChars, MaxGroupLen)
    IN UNION {{<<LBRACKET>> \o g \o <<RBRACKET>>,
               <<BANG, LBRACKET>> \o g \o <<RBRACKET>>,
               <<LBRACKET>> \o g} : g \in contents}

PatternTexts == ExampleTexts \cup SeqsUpTo(PatternChars, MaxPatLen) \cup GroupTexts

Values ==
    ExampleValues \cup SeqsUpTo(ValueChars, MaxValueLen)
        \cup {<<c>> : c \in SingleChars}

\* no Pattern: Option::None of the traversal, or parse not yet called
NoPattern == [text |-> <<>>, inclusive |-> TRUE, status |-> "idle", pattern |-> <<>>]

NoMatching == [status |-> "idle", value |-> <<>>, is_match |-> FALSE]

\* Pattern::parse returns a Pattern
PatternParse ==
    /\ pattern_parser.status = "idle"
    /\ LET p == parse(pattern_parser.text, pattern_parser.inclusive)
       IN /\ p.status = "pattern"
          /\ pattern_parser' = p
    /\ UNCHANGED <<fs, opts, matching, walkerVars, builderVars, envVars>>

\* Pattern::parse panics on unwrap() or expect()
PatternParsePanic ==
    /\ pattern_parser.status = "idle"
    /\ LET p == parse(pattern_parser.text, pattern_parser.inclusive)
       IN /\ p.status = "panic"
          /\ pattern_parser' = p
    /\ UNCHANGED <<fs, opts, matching, walkerVars, builderVars, envVars>>

\* Pattern::is_match on a candidate
IsMatch ==
    /\ pattern_parser.status = "pattern"
    /\ matching.status = "idle"
    /\ \E value \in Values :
          matching' = [status |-> "done", value |-> value,
                       is_match |-> is_match(pattern_parser.pattern, value)]
    /\ UNCHANGED <<fs, opts, pattern_parser, walkerVars, builderVars, envVars>>

-----------------------------------------------------------------------------
(* Entry descriptors: DirEntry of src/core/tree.rs, with the symlink fields *)
(* of src/core/dirent.rs                                                   *)

\* DirEntry::from_path / DirEntry::from_entry: the entry reached by `path`
\* (node ids from the root), constructed at depth d
FromEntry(path, d) == [path |-> path, depth |-> d, is_recursive_link |-> FALSE]

NodeOfEntry(e) == Last(e.path)

\* file_type comes from metadata that does not follow links, so a symlink is
\* neither a directory nor a plain file
is_dir(e) == KindOf(NodeOfEntry(e)) = "dir"
is_symlink(e) == KindOf(NodeOfEntry(e)) = "symlink"

\* the hidden-file marker
DOT == 46

\* str::starts_with('.')
HiddenName(n) == Len(n) > 0 /\ n[1] = DOT

is_hidden(e) == HiddenName(NameOf(NodeOfEntry(e)))

\* the file name with one leading marker stripped
get_clean_name(e) ==
    LET n == NameOf(NodeOfEntry(e)) IN IF HiddenName(n) THEN Tail(n) ELSE n

\* str::cmp: lexicographic comparison of two names by character code
RECURSIVE StrCmp(_, _)
StrCmp(a, b) ==
    IF a = <<>> /\ b = <<>> THEN "Equal"
    ELSE IF a = <<>> THEN "Less"
    ELSE IF b = <<>> THEN "Greater"
    ELSE IF Head(a) < Head(b) THEN "Less"
    ELSE IF Head(a) > Head(b) THEN "Greater"
    ELSE StrCmp(Tail(a), Tail(b))

-----------------------------------------------------------------------------
(* Filtering and ordering of one directory's children: handle_entry        *)

\* the filter of the filter_map closure: TRUE when the child is kept
KeepEntryDropsNothing(o, e) == TRUE
KeepEntry(o, e) == ~((~o.all /\ is_hidden(e)) \/ (~is_dir(e) /\ o.dirs))

\* the comparison closure handed to sort_by; "todo" is the todo!() arm
CompareIgnoresDirsFirst(o, a, b) ==
    IF o.last_modified_sort THEN "todo"
    ELSE IF o.reverse_alpha_sort THEN StrCmp(get_clean_name(b), get_clean_name(a))
    ELSE StrCmp(get_clean_name(a), get_clean_name(b))
CompareIgnoresReverse(o, a, b) ==
    IF is_dir(a) /\ ~is_dir(b) /\ o.dirs_first THEN "Less"
    ELSE IF ~is_dir(a) /\ is_dir(b) /\ o.dirs_first THEN "Greater"
    ELSE IF o.last_modified_sort THEN "todo"
    ELSE StrCmp(get_clean_name(a), get_clean_name(b))
Compare(o, a, b) ==
    IF is_dir(a) /\ ~is_dir(b) /\ o.dirs_first THEN "Less"
    ELSE IF ~is_dir(a) /\ is_dir(b) /\ o.dirs_first THEN "Greater"
    ELSE IF o.last_modified_sort THEN "todo"
    ELSE IF o.reverse_alpha_sort THEN StrCmp(get_clean_name(b), get_clean_name(a))
    ELSE StrCmp(get_clean_name(a), get_clean_name(b))

\* slice::sort_by is a stable sort: insert x behind every element that does
\* not compare Greater than it
RECURSIVE InsertSorted(_, _, _)
InsertSorted(o, x, s) ==
    IF s = <<>> THEN <<x>>
    ELSE IF Compare(o, x, Head(s)) = "Less" THEN <<x>> \o s
    ELSE <<Head(s)>> \o InsertSorted(o, x, Tail(s))

RECURSIVE SortFrom(_, _, _)
SortFrom(o, acc, s) ==
    IF s = <<>> THEN acc
    ELSE SortFrom(o, InsertSorted(o, Head(s), acc), Tail(s))

sort_by(o, s) == SortFrom(o, <<>>, s)

\* sort_by reaches the todo!() arm: any sort has to compare the two members
\* of some pair that no other rule orders
SortPanics(o, s) ==
    \E i, j \in 1 .. Len(s) : i < j /\ Compare(o, s[i], s[j]) = "todo"

\* the children of the directory `dir` read through the entry `e`, in read
\* order `order`, constructed at depth d and filtered
RECURSIVE EntryList(_, _, _, _)
EntryList(o, e, d, order) ==
    IF order = <<>> THEN <<>>
    ELSE LET c == FromEntry(Append(e.path, Head(order)), d)
             rest == EntryList(o, e, d, Tail(order))
         IN IF KeepEntry(o, c) THEN <<c>> \o rest ELSE rest

-----------------------------------------------------------------------------
(* Symlink handling of the walker.  The walker that sets                   *)
(* DirEntry.is_recursive_link (declared in src/core/dirent.rs, read in     *)
(* src/core/display.rs) is not among the sources: these three definitions  *)
(* follow section 4.2 of the specification.                                *)

\* the entry is a symlink, links are followed, and the identity of the
\* link's target is in the visited-identity set
IsRecursiveLinkNever(o, e, vis) == FALSE
IsRecursiveLink(o, e, vis) ==
    o.follow_symlinks /\ is_symlink(e) /\ TargetOf(NodeOfEntry(e)) \in vis

\* the entry designates a directory through a symlink that is followed
FollowsLink(o, e, vis) ==
    /\ o.follow_symlinks /\ is_symlink(e)
    /\ TargetOf(NodeOfEntry(e)) \notin vis
    /\ KindOf(TargetOf(NodeOfEntry(e))) = "dir"

\* the visited-identity set after a directory of identity id was entered
RecordVisited(o, vis, id) == IF o.follow_symlinks THEN vis \cup {id} ELSE vis

-----------------------------------------------------------------------------
(* TreeIterator::handle_entry                                              *)

\* the directory whose contents the entry's expansion reads
DirRead(e) ==
    IF is_dir(e) THEN NodeOfEntry(e) ELSE TargetOf(NodeOfEntry(e))

\* the entry is expanded: its children are read and a frame is pushed
Expands(o, e, vis) == is_dir(e) \/ FollowsLink(o, e, vis)

\* DirEntry::from_entry(entry.unwrap(), self.depth + 1)
ChildDepthOfParent(d) == d
ChildDepth(d) == d + 1

\* no failure of the file system
NoFaults == [unreadable |-> {}, nometa |-> {}]

\* process_opts not called
NoArgs == [status |-> "idle", input |-> <<>>, output |-> <<>>]

\* std::fs::read_dir(dirent.path()) returns Err: .expect("Error reading dir")
ReadFails(dir) == dir \in faults.unreadable

\* entry.metadata() returns Err for one of the entries read:
\* .expect("failed to get metadata") in DirEntry::from_entry
MetadataFails(order) == \E i \in DOMAIN order : order[i] \in faults.nometa

\* handle_entry(dirent) with self.depth = d, the directory read returning
\* its entries in the order `order`:
\*   panic   "read_dir" when the read of the directory fails, "metadata"
\*           when the metadata of a child cannot be had, "todo" when
\*           sort_by reaches the todo!() arm
\*   frames  the frame pushed, if any (a sequence of zero or one frame)
\*   dent    the entry returned
\*   vis     the visited-identity set afterwards
HandleEntry(o, e, d, order, vis) ==
    IF IsRecursiveLink(o, e, vis)
    THEN [panic |-> "none", frames |-> <<>>,
          dent |-> [e EXCEPT !.is_recursive_link = TRUE], vis |-> vis]
    ELSE IF Expands(o, e, vis) /\ ReadFails(DirRead(e))
    THEN [panic |-> "read_dir", frames |-> <<>>, dent |-> e, vis |-> vis]
    ELSE IF Expands(o, e, vis) /\ MetadataFails(order)
    THEN [panic |-> "metadata", frames |-> <<>>, dent |-> e, vis |-> vis]
    ELSE IF Expands(o, e, vis)
    THEN LET entry_list == EntryList(o, e, ChildDepth(d), order)
         IN IF SortPanics(o, entry_list)
            THEN [panic |-> "todo", frames |-> <<>>, dent |-> e, vis |-> vis]
            ELSE [panic |-> "none", frames |-> <<sort_by(o, entry_list)>>,
                  dent |-> e, vis |-> RecordVisited(o, vis, DirRead(e))]
    ELSE [panic |-> "none", frames |-> <<>>, dent |-> e, vis |-> vis]

\* the orders in which the read made by handle_entry(e) can return
ReadOrdersFor(o, e, vis, S) ==
    IF ~IsRecursiveLink(o, e, vis) /\ Expands(o, e, vis) /\ ~ReadFails(DirRead(e))
    THEN ReadOrders(ChildrenOf(DirRead(e), S))
    ELSE {<<>>}

\* record of a pushed frame in the history
PushRecord(e, frames) ==
    IF frames = <<>> THEN <<>>
    ELSE <<[dir |-> e.path, depth |-> e.depth, frame |-> frames[1]]>>

-----------------------------------------------------------------------------
(* TreeIterator::next                                                      *)

Pop(s) == SubSeq(s, 1, Len(s) - 1)

\* the while loop of next() up to the first frame that has an item left:
\* every iteration sets self.depth to the stack length, and an exhausted
\* frame is popped and self.depth decremented
RECURSIVE Unwind(_, _)
Unwind(dl, dp) ==
    IF dl = <<>> THEN [dl |-> dl, depth |-> dp]
    ELSE IF Last(dl) = <<>> THEN Unwind(Pop(dl), Len(dl) - 1)
    ELSE [dl |-> dl, depth |-> Len(dl)]

\* dent.depth > self.opts.max_depth.unwrap_or(dent.depth)
OverDepthNever(o, e) == FALSE
OverDepth(o, e) == o.max_depth # NoneVal /\ e.depth > o.max_depth

Running == panic = "none"

MayCall == Running /\ (endAt = -1 \/ extraCalls < MaxExtraCalls)

NoteNone ==
    /\ endAt' = IF endAt = -1 THEN Len(yielded) ELSE endAt
    /\ extraCalls' = IF endAt = -1 THEN 0 ELSE extraCalls + 1

NoteCall == IF endAt = -1 THEN 0 ELSE extraCalls + 1

\* iter.size_hint().0, read before the item is taken: the items the frame
\* still holds
RemainingAfterAdvance(top) == Len(top) - 1
Remaining(top) == Len(top)

\* first call: the pending root is handled and yielded as (1, root)
NextRoot ==
    /\ MayCall /\ start
    /\ LET root == FromEntry(<<Root>>, depth)
       IN \E order \in ReadOrdersFor(opts, root, visited, fs) :
            LET h == HandleEntry(opts, root, depth, order, visited)
            IN /\ h.panic = "none"
               /\ start' = FALSE
               /\ dirent_list' = dirent_list \o h.frames
               /\ visited' = h.vis
               /\ yielded' = Append(yielded, [remaining |-> 1, dent |-> h.dent])
               /\ pushed' = pushed \o PushRecord(root, h.frames)
               /\ extraCalls' = NoteCall
               /\ UNCHANGED <<fs, opts, depth, panic, endAt, builderVars,
                              patternVars, envVars>>

\* the top frame (after exhausted frames are popped) has an item: it is
\* handled and yielded with the number of items the frame held
NextEntry ==
    /\ MayCall /\ ~start
    /\ LET u == Unwind(dirent_list, depth)
       IN /\ u.dl # <<>>
          /\ LET top == Last(u.dl)
                 dent == Head(top)
                 taken == [u.dl EXCEPT ![Len(u.dl)] = Tail(top)]
             IN \E order \in ReadOrdersFor(opts, dent, visited, fs) :
                  LET h == HandleEntry(opts, dent, u.depth, order, visited)
                  IN /\ h.panic = "none"
                     /\ ~OverDepth(opts, h.dent)
                     /\ dirent_list' = taken \o h.frames
                     /\ depth' = h.dent.depth
                     /\ visited' = h.vis
                     /\ yielded' = Append(yielded,
                                      [remaining |-> Remaining(top), dent |-> h.dent])
                     /\ pushed' = pushed \o PushRecord(dent, h.frames)
                     /\ extraCalls' = NoteCall
                     /\ UNCHANGED <<fs, opts, start, panic, endAt, builderVars,
                                    patternVars, envVars>>

\* the item taken lies deeper than max_depth: the last frame is popped
\* (the one handle_entry has just pushed, if it pushed one) and next()
\* returns None
NextDepthLimit ==
    /\ MayCall /\ ~start
    /\ LET u == Unwind(dirent_list, depth)
       IN /\ u.dl # <<>>
          /\ LET top == Last(u.dl)
                 dent == Head(top)
                 taken == [u.dl EXCEPT ![Len(u.dl)] = Tail(top)]
             IN \E order \in ReadOrdersFor(opts, dent, visited, fs) :
                  LET h == HandleEntry(opts, dent, u.depth, order, visited)
                  IN /\ h.panic = "none"
                     /\ OverDepth(opts, h.dent)
                     /\ dirent_list' = Pop(taken \o h.frames)
                     /\ depth' = u.depth
                     /\ visited' = h.vis
                     /\ pushed' = pushed \o PushRecord(dent, h.frames)
                     /\ NoteNone
                     /\ UNCHANGED <<fs, opts, start, panic, yielded, builderVars,
                                    patternVars, envVars>>

\* every frame is exhausted: the stack is emptied and next() returns None
NextExhausted ==
    /\ MayCall /\ ~start
    /\ LET u == Unwind(dirent_list, depth)
       IN /\ u.dl = <<>>
          /\ dirent_list' = <<>>
          /\ depth' = u.depth
          /\ NoteNone
          /\ UNCHANGED <<fs, opts, start, visited, panic, yielded, pushed,
                         builderVars, patternVars, envVars>>

\* handle_entry reaches todo!(): the process aborts inside next()
NextPanic ==
    /\ MayCall
    /\ LET u == Unwind(dirent_list, depth)
           dent == IF start THEN FromEntry(<<Root>>, depth) ELSE Head(Last(u.dl))
       IN /\ start \/ u.dl # <<>>
          /\ \E order \in ReadOrdersFor(opts, dent, visited, fs) :
               LET h == HandleEntry(opts, dent, IF start THEN depth ELSE u.depth,
                                    order, visited)
               IN /\ h.panic # "none"
                  /\ panic' = h.panic
                  /\ start' = FALSE
                  /\ dirent_list' = IF start THEN dirent_list
                                    ELSE [u.dl EXCEPT ![Len(u.dl)] = Tail(Last(u.dl))]
                  /\ depth' = IF start THEN depth ELSE u.depth
                  /\ UNCHANGED <<fs, opts, visited, yielded, endAt, extraCalls,
                                 pushed, builderVars, patternVars, envVars>>

-----------------------------------------------------------------------------
(* Tree::into_iter and the specification of the walker                     *)

Init ==
    /\ fs \in Hierarchies
    /\ opts \in {c \in Configurations : ~c.prune}
    /\ start = TRUE
    /\ dirent_list = <<>>
    /\ depth = 0
    /\ visited = {}
    /\ panic = "none"
    /\ yielded = <<>>
    /\ endAt = -1
    /\ extraCalls = 0
    /\ pushed = <<>>
    /\ newStack = <<>>
    /\ newResult = "idle"
    /\ newTree = <<>>
    /\ pattern_parser = NoPattern
    /\ matching = NoMatching
    /\ faults = NoFaults
    /\ env_args = NoArgs

Next ==
    \/ NextRoot
    \/ NextEntry
    \/ NextDepthLimit
    \/ NextExhausted
    \/ NextPanic

Spec == Init /\ [][Next]_vars

-----------------------------------------------------------------------------
(* DirTree::new, the recursive builder of src/entities/dir.rs              *)

\* nesting of calls the process stack can hold
MaxCallDepth == 6

\* Path::is_dir follows links
ResolvesToDir(n) ==
    \/ KindOf(n) = "dir"
    \/ KindOf(n) = "symlink" /\ KindOf(TargetOf(n)) = "dir"

\* the node a path resolves to
Resolved(n) == IF KindOf(n) = "symlink" THEN TargetOf(n) ELSE n

\* Cmd::requires_metadata, for the flags of the model
with_meta(o) == o.last_modified_sort

\* `if pattern_parser.is_some()`: the entry is removed when its name does
\* not match an inclusive pattern or matches an exclusive one
PatternRemoves(pp, n) ==
    /\ pp.status = "pattern"
    /\ \/ ~is_match(pp.pattern, NameOf(n)) /\ pp.inclusive
       \/ is_match(pp.pattern, NameOf(n)) /\ ~pp.inclusive

\* the patterns the builder is run with: a*, kept or dropped
BuilderPatterns == {parse(<<97, STAR>>, is_inclusive) : is_inclusive \in BOOLEAN}

\* what the filter_map closure does with the entry n read at `level`:
\* "drop", "file", "leafdir" (a link to a directory that is not followed)
\* or "descend" (a recursive call of new at level + 1)
ClosureOutcome(o, pp, n) ==
    LET remove_hidden == ~o.all /\ HiddenName(NameOf(n))
        remove_file == ~ResolvesToDir(n) /\ o.dirs /\ ~o.prune
    IN IF PatternRemoves(pp, n) THEN "drop"
       ELSE IF remove_hidden \/ remove_file THEN "drop"
       ELSE IF KindOf(n) = "symlink"
            THEN IF KindOf(TargetOf(n)) = "dir"
                 THEN IF o.follow_symlinks THEN "descend" ELSE "leafdir"
                 ELSE "file"
       ELSE IF ResolvesToDir(n) THEN "descend"
       ELSE "file"

\* `if level > max_depth { return None }`
LevelCut(o, level) == o.max_depth # NoneVal /\ level > o.max_depth

\* Contents: the entry's node, Contents::is_dir, the node whose metadata it
\* holds (0 for None) and the subtree beneath it flattened in display order
FileContents(o, n) ==
    [node |-> n, isdir |-> ResolvesToDir(n),
     meta |-> IF with_meta(o) THEN Resolved(n) ELSE 0, sub |-> <<>>]

LeafDirContents(n) == [node |-> n, isdir |-> TRUE, meta |-> 0, sub |-> <<>>]

DirContents(o, n, lines) ==
    [node |-> n, isdir |-> TRUE,
     meta |-> IF with_meta(o) THEN Resolved(n) ELSE 0, sub |-> lines]

\* Contents::get_clean_name
ContentsCleanName(c) ==
    LET n == NameOf(c.node) IN IF HiddenName(n) THEN Tail(n) ELSE n

\* Contents::get_last_modified: the time of the metadata held, or the
\* current time, which is later than every modification time
Now == Len(NodeTable) + Len(NodeTable)
ContentsLastModified(c) == IF c.meta = 0 THEN Now ELSE MTimeOf(c.meta)

IntCmp(a, b) == IF a < b THEN "Less" ELSE IF a > b THEN "Greater" ELSE "Equal"

\* the comparison closure of mapped.sort_by
ContentsCompare(o, a, b) ==
    IF o.reverse_alpha_sort THEN StrCmp(ContentsCleanName(b), ContentsCleanName(a))
    ELSE IF o.last_modified_sort
         THEN IntCmp(ContentsLastModified(a), ContentsLastModified(b))
    ELSE StrCmp(ContentsCleanName(a), ContentsCleanName(b))

RECURSIVE ContentsInsert(_, _, _)
ContentsInsert(o, x, s) ==
    IF s = <<>> THEN <<x>>
    ELSE IF ContentsCompare(o, x, Head(s)) = "Less" THEN <<x>> \o s
    ELSE <<Head(s)>> \o ContentsInsert(o, x, Tail(s))

RECURSIVE ContentsSortFrom(_, _, _)
ContentsSortFrom(o, acc, s) ==
    IF s = <<>> THEN acc
    ELSE ContentsSortFrom(o, ContentsInsert(o, Head(s), acc), Tail(s))

IsDirContents(c) == c.isdir
IsFileContents(c) == ~c.isdir

\* mapped.sort_by(..) followed by the dirs_first partition
SortedChildren(o, cs) ==
    LET mapped == ContentsSortFrom(o, <<>>, cs)
    IN IF o.dirs_first
       THEN SelectSeq(mapped, IsDirContents) \o SelectSeq(mapped, IsFileContents)
       ELSE mapped

\* the children of a tree in display order, each followed by its subtree
RECURSIVE Flatten(_, _)
Flatten(cs, level) ==
    IF cs = <<>> THEN <<>>
    ELSE <<[node |-> Head(cs).node, level |-> level]>> \o Head(cs).sub
         \o Flatten(Tail(cs), level)

NewFrame(dir, level, order, link) ==
    [dir |-> dir, level |-> level, todo |-> order, children |-> <<>>, link |-> link]

Building == newResult = "running" /\ newStack # <<>>

TopCall == Last(newStack)

\* the top call with the entry at the head of its todo list consumed and
\* the contents cs (zero or one) added to its children
Advance(stack, cs) ==
    [stack EXCEPT ![Len(stack)] =
        [@ EXCEPT !.todo = Tail(@), !.children = @ \o cs]]

\* DirTree::new(root, 0, ..): the directory is read
NewStart ==
    /\ newResult = "idle"
    /\ \E order \in ReadOrders(ChildrenOf(Root, fs)) :
          newStack' = <<NewFrame(Root, 0, order, 0)>>
    /\ newResult' = "running"
    /\ UNCHANGED <<fs, opts, newTree, walkerVars, patternVars, envVars>>

\* the closure drops the entry
NewSkipEntry ==
    /\ Building /\ TopCall.todo # <<>>
    /\ ClosureOutcome(opts, pattern_parser, Head(TopCall.todo)) = "drop"
    /\ newStack' = Advance(newStack, <<>>)
    /\ UNCHANGED <<fs, opts, newResult, newTree, walkerVars, patternVars,
                   envVars>>

\* the closure returns a file, or a link to a directory that is not followed
NewLeafEntry ==
    /\ Building /\ TopCall.todo # <<>>
    /\ LET n == Head(TopCall.todo)
           out == ClosureOutcome(opts, pattern_parser, n)
       IN /\ out \in {"file", "leafdir"}
          /\ newStack' = Advance(newStack,
                 <<IF out = "file" THEN FileContents(opts, n) ELSE LeafDirContents(n)>>)
    /\ UNCHANGED <<fs, opts, newResult, newTree, walkerVars, patternVars,
                   envVars>>

\* the closure calls new(.., level + 1, ..), which returns None at once
NewLevelCut ==
    /\ Building /\ TopCall.todo # <<>>
    /\ ClosureOutcome(opts, pattern_parser, Head(TopCall.todo)) = "descend"
    /\ LevelCut(opts, TopCall.level + 1)
    /\ newStack' = Advance(newStack, <<>>)
    /\ UNCHANGED <<fs, opts, newResult, newTree, walkerVars, patternVars,
                   envVars>>

\* the closure calls new(.., level + 1, ..) on the directory, or on the
\* canonical target of the link, and that call reads the directory
NewDescend ==
    /\ Building /\ TopCall.todo # <<>>
    /\ LET n == Head(TopCall.todo)
       IN /\ ClosureOutcome(opts, pattern_parser, n) = "descend"
          /\ ~LevelCut(opts, TopCall.level + 1)
          /\ Len(newStack) < MaxCallDepth
          /\ \E order \in ReadOrders(ChildrenOf(Resolved(n), fs)) :
                newStack' = Append(newStack,
                    NewFrame(Resolved(n), TopCall.level + 1, order,
                             IF KindOf(n) = "symlink" THEN n ELSE 0))
    /\ UNCHANGED <<fs, opts, newResult, newTree, walkerVars, patternVars,
                   envVars>>

\* the recursion exhausts the process stack
NewOverflow ==
    /\ Building /\ TopCall.todo # <<>>
    /\ ClosureOutcome(opts, pattern_parser, Head(TopCall.todo)) = "descend"
    /\ ~LevelCut(opts, TopCall.level + 1)
    /\ Len(newStack) >= MaxCallDepth
    /\ newResult' = "overflow"
    /\ UNCHANGED <<fs, opts, newStack, newTree, walkerVars, patternVars, envVars>>

\* every entry of the directory is processed: the children are sorted and
\* the call returns None (pruned) or Some(tree) to its caller
NewReturn ==
    /\ Building /\ TopCall.todo = <<>>
    /\ LET children == SortedChildren(opts, TopCall.children)
           pruned == opts.prune /\ children = <<>>
           lines == Flatten(children, TopCall.level)
           callers == Pop(newStack)
       IN IF callers = <<>>
          THEN /\ newStack' = <<>>
               /\ newResult' = IF pruned THEN "none" ELSE "some"
               /\ newTree' = IF pruned THEN <<>> ELSE lines
          ELSE /\ newStack' = Advance(callers,
                      IF pruned THEN <<>>
                      ELSE <<DirContents(opts, Head(Last(callers).todo), lines)>>)
               /\ UNCHANGED <<newResult, newTree>>
    /\ UNCHANGED <<fs, opts, walkerVars, patternVars, envVars>>

InitNew ==
    /\ fs \in Hierarchies
    /\ opts \in Configurations
    /\ start = TRUE
    /\ dirent_list = <<>>
    /\ depth = 0
    /\ visited = {}
    /\ panic = "none"
    /\ yielded = <<>>
    /\ endAt = -1
    /\ extraCalls = 0
    /\ pushed = <<>>
    /\ newStack = <<>>
    /\ newResult = "idle"
    /\ newTree = <<>>
    /\ pattern_parser \in {NoPattern} \cup BuilderPatterns
    /\ matching = NoMatching
    /\ faults = NoFaults
    /\ env_args = NoArgs

NextNew ==
    \/ NewStart
    \/ NewSkipEntry
    \/ NewLeafEntry
    \/ NewLevelCut
    \/ NewDescend
    \/ NewOverflow
    \/ NewReturn

SpecNew == InitNew /\ [][NextNew]_vars

-----------------------------------------------------------------------------
(* The specification of the pattern matcher: a text is compiled and the    *)
(* Pattern is matched against one candidate                                *)

\* UserFlags::default()
DefaultFlags ==
    [all |-> FALSE, dirs |-> FALSE, dirs_first |-> FALSE,
     reverse_alpha_sort |-> FALSE, last_modified_sort |-> FALSE,
     follow_symlinks |-> FALSE, prune |-> FALSE, max_depth |-> NoneVal]

InitPattern ==
    /\ fs = {Root}
    /\ opts = DefaultFlags
    /\ start = TRUE
    /\ dirent_list = <<>>
    /\ depth = 0
    /\ visited = {}
    /\ panic = "none"
    /\ yielded = <<>>
    /\ endAt = -1
    /\ extraCalls = 0
    /\ pushed = <<>>
    /\ newStack = <<>>
    /\ newResult = "idle"
    /\ newTree = <<>>
    /\ \E text \in PatternTexts :
          pattern_parser = [NoPattern EXCEPT !.text = text]
    /\ matching = NoMatching
    /\ faults = NoFaults
    /\ env_args = NoArgs

NextPattern ==
    \/ PatternParse
    \/ PatternParsePanic
    \/ IsMatch

SpecPattern == InitPattern /\ [][NextPattern]_vars

-----------------------------------------------------------------------------
(* Vocabulary of the properties                                            *)

Yields == DOMAIN yielded

\* the results a for loop over the walker sees: those before the first None
SeenYields == IF endAt = -1 THEN DOMAIN yielded ELSE 1 .. endAt

ParentPath(e) == Pop(e.path)

\* depth of an entry counted along its path, the root being at 0
PathDepth(e) == Len(e.path) - 1

WasExpanded(e) == \E k \in DOMAIN pushed : pushed[k].dir = e.path

\* stable identity of the directory the k-th component of a path designates
IdentAt(path, k) ==
    IF KindOf(path[k]) = "symlink" THEN TargetOf(path[k]) ELSE path[k]

\* identities of the directories open on the stack when e is taken
AncestorIdents(e) == {IdentAt(e.path, k) : k \in 1 .. (Len(e.path) - 1)}

\* the path of node n through real directories, from the root
RECURSIVE RealPath(_)
RealPath(n) == IF n = Root THEN <<Root>> ELSE Append(RealPath(ParentOf(n)), n)

\* n is reached through real directories and it and all of its ancestors
\* below the root survive the filters
Survives(o, n) ==
    \A k \in 2 .. Len(RealPath(n)) :
        KeepEntry(o, FromEntry(SubSeq(RealPath(n), 1, k), k - 1))

\* the nodes yielded at depth 1, in yield order
RECURSIVE TopLevel(_)
TopLevel(ys) ==
    IF ys = <<>> THEN <<>>
    ELSE IF Head(ys).dent.depth = 1
         THEN <<NodeOfEntry(Head(ys).dent)>> \o TopLevel(Tail(ys))
         ELSE TopLevel(Tail(ys))

TypeOK ==
    /\ fs \in Hierarchies
    /\ opts \in Configurations
    /\ start \in BOOLEAN
    /\ depth \in Nat
    /\ visited \subseteq Nodes
    /\ panic \in {"none", "todo", "read_dir", "metadata"}
    /\ endAt \in -1 .. Len(yielded)
    /\ extraCalls \in 0 .. MaxExtraCalls
    /\ newResult \in {"idle", "running", "some", "none", "overflow"}
    /\ Len(newStack) <= MaxCallDepth

-----------------------------------------------------------------------------
(* C1..C10                                                                 *)

\* C1: with max_depth = D no entry yielded by the walker has depth > D,
\* neither by its depth field nor counted along its path.
C1_NoEntryBeyondMaxDepth ==
    opts.max_depth # NoneVal =>
        \A i \in Yields :
            /\ yielded[i].dent.depth <= opts.max_depth
            /\ PathDepth(yielded[i].dent) <= opts.max_depth

\* C1 witness: max_depth = 1, children at depth 2 were read, and the walk
\* went on until a None result
C1_Witness ==
    /\ opts.max_depth = 1
    /\ endAt # -1
    /\ Len(yielded) >= 2
    /\ \E k \in DOMAIN pushed : pushed[k].depth = 1 /\ pushed[k].frame # <<>>

\* C2: with max_depth = D, when the sequence ends every node at depth <= D
\* that survives the filters has been yielded exactly once.
C2_AllWithinDepthYielded ==
    (opts.max_depth # NoneVal /\ endAt # -1) =>
        \A n \in fs :
            (Len(RealPath(n)) - 1 <= opts.max_depth /\ Survives(opts, n)) =>
                Cardinality({i \in SeenYields :
                                yielded[i].dent.path = RealPath(n)}) = 1

\* C3: with max_depth = D, a directory below the root yielded at depth D is
\* not expanded: no frame is pushed for it.
C3_DirAtLimitNotExpanded ==
    opts.max_depth # NoneVal =>
        \A i \in Yields :
            (/\ yielded[i].dent.depth = opts.max_depth
             /\ yielded[i].dent.depth >= 1
             /\ is_dir(yielded[i].dent)) => ~WasExpanded(yielded[i].dent)

SiblingsOrdered(before(_, _)) ==
    /\ \A i, j \in Yields :
          (i < j /\ ParentPath(yielded[i].dent) = ParentPath(yielded[j].dent)
                 /\ yielded[i].dent.depth >= 1) =>
              before(yielded[i].dent, yielded[j].dent)
    /\ \A k \in DOMAIN pushed :
          \A i, j \in DOMAIN pushed[k].frame :
              i < j => before(pushed[k].frame[i], pushed[k].frame[j])

NameAscending(a, b) == StrCmp(get_clean_name(a), get_clean_name(b)) # "Greater"
NameDescending(a, b) == StrCmp(get_clean_name(a), get_clean_name(b)) # "Less"

DirsThenNameAscending(a, b) ==
    /\ ~(~is_dir(a) /\ is_dir(b))
    /\ is_dir(a) = is_dir(b) => NameAscending(a, b)

\* C6: with dirs_first alone, in every frame the directories come before
\* the other children, each group in ascending clean-name order.
C6_DirsFirstOrder ==
    (opts.dirs_first /\ ~opts.reverse_alpha_sort /\ ~opts.last_modified_sort) =>
        SiblingsOrdered(DirsThenNameAscending)

\* C6 witness: the scenario root = {b.txt, a.txt, z/}: z, a.txt, b.txt
C6_Witness ==
    /\ opts.dirs_first /\ ~opts.reverse_alpha_sort /\ ~opts.last_modified_sort
    /\ TopLevel(yielded) = <<2, 4, 3>>

\* C7: with rev_alpha_sort alone the children of every directory come in
\* descending clean-name order whatever their kind; with none of the three
\* flags, in ascending clean-name order.
C7_NameOrder ==
    /\ (opts.reverse_alpha_sort /\ ~opts.dirs_first /\ ~opts.last_modified_sort) =>
          SiblingsOrdered(NameDescending)
    /\ (~opts.reverse_alpha_sort /\ ~opts.dirs_first /\ ~opts.last_modified_sort) =>
          SiblingsOrdered(NameAscending)

\* C7 witness: the scenario root = {b.txt, a.txt, z/}: z, b.txt, a.txt
C7_Witness ==
    /\ opts.reverse_alpha_sort /\ ~opts.dirs_first /\ ~opts.last_modified_sort
    /\ TopLevel(yielded) = <<2, 3, 4>>

ModTimeThenName(a, b) ==
    LET ta == MTimeOf(NodeOfEntry(a))
        tb == MTimeOf(NodeOfEntry(b))
    IN /\ (opts.dirs_first => ~(~is_dir(a) /\ is_dir(b)))
       /\ (opts.dirs_first => is_dir(a) = is_dir(b)) =>
             /\ ta <= tb
             /\ ta = tb => IF opts.reverse_alpha_sort THEN NameDescending(a, b)
                           ELSE NameAscending(a, b)

\* C8: with last_mod_sort the expansion of every directory completes and
\* its frame is ordered by modification time, then by name.
C8_LastModOrder ==
    opts.last_modified_sort =>
        /\ panic = "none"
        /\ SiblingsOrdered(ModTimeThenName)

\* the entries of S in ascending order of node id
RECURSIVE CanonicalOrder(_)
CanonicalOrder(S) ==
    IF S = {} THEN <<>>
    ELSE LET m == CHOOSE x \in S : \A y \in S : x <= y
         IN <<m>> \o CanonicalOrder(S \ {m})

\* C9: the sibling comparison never reports two distinct children of one
\* directory equal, and every frame is the one the sort gives whatever the
\* order in which the directory read returned the children.
C9_StrictTotalOrder ==
    ~opts.last_modified_sort =>
        \A k \in DOMAIN pushed :
            LET f == pushed[k].frame
                e == FromEntry(pushed[k].dir, pushed[k].depth)
                d == IdentAt(pushed[k].dir, Len(pushed[k].dir))
            IN /\ \A i, j \in DOMAIN f :
                     i # j => Compare(opts, f[i], f[j]) # "Equal"
               /\ f = sort_by(opts, EntryList(opts, e, pushed[k].depth + 1,
                                              CanonicalOrder(ChildrenOf(d, fs))))

HiddenNode(n) == HiddenName(NameOf(n))

\* C10: with visit_all = false no component below the root of a yielded
\* path is hidden; an expanded directory whose children are all hidden has
\* an empty frame and nothing is yielded beneath it; and a child that is
\* not hidden is kept in its parent's frame even when all of its own
\* children are hidden.
C10_HiddenDropped ==
    ~opts.all =>
        /\ \A i \in Yields :
              \A k \in 2 .. Len(yielded[i].dent.path) :
                  ~HiddenNode(yielded[i].dent.path[k])
        /\ \A k \in DOMAIN pushed :
              LET d == IdentAt(pushed[k].dir, Len(pushed[k].dir))
              IN /\ (\A c \in ChildrenOf(d, fs) : HiddenNode(c)) =>
                       /\ pushed[k].frame = <<>>
                       /\ \A i \in Yields :
                             yielded[i].dent.depth >= 1 =>
                                 ParentPath(yielded[i].dent) # pushed[k].dir
                 /\ \A c \in ChildrenOf(d, fs) :
                       (~HiddenNode(c) /\ (KindOf(c) = "dir" \/ ~opts.dirs)) =>
                           \E i \in DOMAIN pushed[k].frame :
                               NodeOfEntry(pushed[k].frame[i]) = c

\* C10 witness: z, whose only child is .a, was yielded and the walk ended
C10_Witness ==
    /\ ~opts.all /\ endAt # -1
    /\ \E i \in Yields :
          LET e == yielded[i].dent
          IN /\ e.depth >= 1 /\ is_dir(e) /\ WasExpanded(e)
             /\ ChildrenOf(NodeOfEntry(e), fs) # {}
             /\ \A c \in ChildrenOf(NodeOfEntry(e), fs) : HiddenNode(c)

\* the directories of the hierarchy
DirsOf(S) == {n \in S : KindOf(n) = "dir"}

\* C5: with follow_symlinks and no max_depth the traversal of a finite
\* hierarchy ends: the descent never nests deeper than the hierarchy has
\* directories and never exhausts the stack.
C5_Terminates ==
    (opts.follow_symlinks /\ opts.max_depth = NoneVal) =>
        /\ Len(newStack) <= Cardinality(DirsOf(fs))
        /\ newResult # "overflow"

-----------------------------------------------------------------------------
(* C13..C19: the pattern matcher                                           *)

Parsed == pattern_parser.status # "idle"
Compiled == pattern_parser.status = "pattern"
Matched == matching.status = "done"

\* the index of the first `[` of a text, 0 if it has none
FirstOpen(text) ==
    LET opens == {i \in DOMAIN text : text[i] = LBRACKET}
    IN IF opens = {} THEN 0 ELSE CHOOSE i \in opens : \A j \in opens : i <= j

\* the group the text opens first is closed at once: `[]`
ClosedWithoutContent(text) ==
    LET i == FirstOpen(text)
    IN i # 0 /\ i < Len(text) /\ text[i + 1] = RBRACKET

\* the group the text opens first is never closed
EndsInsideGroup(text) ==
    LET i == FirstOpen(text)
    IN i # 0 /\ \A j \in (i + 1) .. Len(text) : text[j] # RBRACKET

\* the text ends in that group right after the hyphen of a range
MissingRangeEnd(text) ==
    /\ EndsInsideGroup(text)
    /\ Len(text) >= FirstOpen(text) + 2
    /\ text[Len(text)] = HYPHEN
    /\ is_ascii_alphanumeric(text[Len(text) - 1])

Malformed(text) ==
    ClosedWithoutContent(text) \/ EndsInsideGroup(text) \/ MissingRangeEnd(text)

\* C13: compiling a malformed text (a group closed without content, a range
\* without its second endpoint, an unterminated group) ends in a compile
\* error value: it neither panics nor returns a Pattern.
C13_MalformedIsCompileError ==
    (Parsed /\ Malformed(pattern_parser.text)) => pattern_parser.status = "error"

\* the index of the first OneOrMore token that another token follows, 0 if
\* there is none
FirstInnerOneOrMore(tokens) ==
    LET stars == {i \in 1 .. (Len(tokens) - 1) : tokens[i].type = "OneOrMore"}
    IN IF stars = {} THEN 0 ELSE CHOOSE i \in stars : \A j \in stars : i <= j

\* the first n characters of value satisfy the first n tokens one by one
LockStep(tokens, value, n) ==
    /\ Len(value) >= n
    /\ \A i \in 1 .. n : match_single(value[i], tokens[i])

\* C14: a `*` followed by a further token takes one candidate character for
\* itself, then skips to the first later character that satisfies the next
\* token, and the match fails when there is none: a*c does not match ac and
\* matches a_b_c.
C14_OneOrMoreTakesOneThenSkips ==
    (Compiled /\ Matched) =>
        LET tokens == pattern_parser.pattern
            value == matching.value
            pi == FirstInnerOneOrMore(tokens)
            firstHit(k) ==
                /\ match_single(value[k], tokens[pi + 1])
                /\ \A m \in (pi + 1) .. (k - 1) :
                       ~match_single(value[m], tokens[pi + 1])
        IN /\ pi # 0 =>
                (matching.is_match <=>
                    /\ LockStep(tokens, value, pi - 1)
                    /\ Len(value) >= pi
                    /\ \E k \in (pi + 1) .. Len(value) :
                          /\ firstHit(k)
                          /\ MatchFrom(tokens, value, pi + 2, k + 1).is_match)
           /\ pattern_parser.text = <<97, 42, 99>> =>
                /\ value = <<97, 99>> => ~matching.is_match
                /\ value = <<97, 95, 98, 95, 99>> => matching.is_match

C14_Witness ==
    /\ Matched
    /\ pattern_parser.text = <<97, 42, 99>>
    /\ matching.value = <<97, 95, 98, 95, 99>>
    /\ matching.is_match

\* C15: a pattern that ends in `*` needs a candidate character for it: when
\* the tokens before the `*` match and take the whole candidate the pattern
\* does not match, when they match and leave a character it does (abc* and
\* ctx-[a-c]??_t* do not match abc and ctx-bcc_t).
C15_FinalOneOrMoreNeedsOne ==
    (Compiled /\ Matched) =>
        LET tokens == pattern_parser.pattern
            value == matching.value
            front == SubSeq(tokens, 1, Len(tokens) - 1)
            run == MatchFrom(front, value, 1, 1)
        IN /\ (tokens # <<>> /\ tokens[Len(tokens)].type = "OneOrMore" /\ run.is_match) =>
                (matching.is_match <=> run.pos <= Len(value))
           /\ (pattern_parser.text = <<97, 98, 99, 42>> /\ value = <<97, 98, 99>>) =>
                ~matching.is_match
           /\ (/\ pattern_parser.text =
                      <<99, 116, 120, 45, 91, 97, 45, 99, 93, 63, 63, 95, 116, 42>>
               /\ value = <<99, 116, 120, 45, 98, 99, 99, 95, 116>>) =>
                ~matching.is_match

C15_Witness ==
    /\ Matched
    /\ pattern_parser.text = <<97, 98, 99, 42>>
    /\ matching.value = <<97, 98, 99>>
    /\ ~matching.is_match

\* C16: the pattern * matches every candidate that is not empty and does
\* not match the empty candidate.
C16_LoneOneOrMore ==
    (Compiled /\ Matched /\ pattern_parser.text = <<STAR>>) =>
        (matching.is_match <=> matching.value # <<>>)

C16_Witness ==
    /\ Matched
    /\ pattern_parser.text = <<STAR>>
    /\ matching.value = <<97, 98, 99>>
    /\ matching.is_match

\* the text is one bracket group `[G]` closed at its last character
IsPlainGroup(text) ==
    /\ Len(text) >= 2
    /\ text[1] = LBRACKET
    /\ text[Len(text)] = RBRACKET
    /\ \A i \in 2 .. (Len(text) - 1) : text[i] # RBRACKET

\* the text is one negated bracket group `![G]`
IsNegatedGroup(text) ==
    /\ Len(text) >= 3
    /\ text[1] = BANG
    /\ IsPlainGroup(Tail(text))

\* the content G of `[G]`
GroupContent(text) == SubSeq(text, 2, Len(text) - 1)

\* the hyphen at index j of G does not stand between two alphanumerics
LiteralHyphenAt(g, j) ==
    /\ g[j] = HYPHEN
    /\ ~(/\ j > 1 /\ is_ascii_alphanumeric(g[j - 1])
          /\ j < Len(g) /\ is_ascii_alphanumeric(g[j + 1]))

\* G lists plain characters and hyphens, none of them between two
\* alphanumerics, and at least one hyphen
ListsLiteralHyphen(g) ==
    /\ \E j \in DOMAIN g : g[j] = HYPHEN
    /\ \A j \in DOMAIN g :
          /\ g[j] \notin {BAR, BANG, LBRACKET, STAR, QMARK}
          /\ g[j] = HYPHEN => LiteralHyphenAt(g, j)

\* C17: in a bracket group a hyphen that is not between two alphanumerics is
\* a member of the set and every other character listed stays a member:
\* [bljk_-] is the set of b, l, j, k, _ and -, and a[bljk_-]c matches a-c
\* and a_c.
C17_LiteralHyphenKeepsMembers ==
    /\ (Parsed /\ IsPlainGroup(pattern_parser.text)
               /\ ListsLiteralHyphen(GroupContent(pattern_parser.text))) =>
          /\ Compiled
          /\ pattern_parser.pattern =
                <<OneOf(CharSet(GroupContent(pattern_parser.text)))>>
    /\ (Compiled /\ Matched
          /\ pattern_parser.text = <<97, 91, 98, 108, 106, 107, 95, 45, 93, 99>>
          /\ matching.value \in {<<97, 45, 99>>, <<97, 95, 99>>}) =>
          matching.is_match

\* G is a list of ranges x-y of alphanumerics x <= y, with or without `|`
\* between them
RECURSIVE IsRangeList(_)
IsRangeList(g) ==
    IF g = <<>> THEN TRUE
    ELSE IF g[1] = BAR THEN IsRangeList(Tail(g))
    ELSE /\ Len(g) >= 3
         /\ is_ascii_alphanumeric(g[1])
         /\ g[2] = HYPHEN
         /\ is_ascii_alphanumeric(g[3])
         /\ g[1] <= g[3]
         /\ IsRangeList(SubSeq(g, 4, Len(g)))

\* the union of the ranges of a range list
RECURSIVE RangeUnion(_)
RangeUnion(g) ==
    IF g = <<>> THEN {}
    ELSE IF g[1] = BAR THEN RangeUnion(Tail(g))
    ELSE (g[1] .. g[3]) \cup RangeUnion(SubSeq(g, 4, Len(g)))

\* C18: a group of ranges x-y of alphanumerics x <= y, with or without `|`
\* between them, compiles to the one-of token of exactly the characters of
\* the ranges, `|` not among them: [a-cD-F0-5] is a, b, c, D, E, F, 0 .. 5
\* and [a-c] matches b and not d.
C18_RangesCompileToUnion ==
    (Parsed /\ IsPlainGroup(pattern_parser.text)
            /\ IsRangeList(GroupContent(pattern_parser.text))) =>
        LET members == RangeUnion(GroupContent(pattern_parser.text))
        IN /\ Compiled
           /\ pattern_parser.pattern = <<OneOf(members)>>
           /\ BAR \notin members
           /\ pattern_parser.text = <<91, 97, 45, 99, 68, 45, 70, 48, 45, 53, 93>> =>
                 members = {97, 98, 99, 68, 69, 70, 48, 49, 50, 51, 52, 53}
           /\ (Matched /\ Len(matching.value) = 1) =>
                 (matching.is_match <=> matching.value[1] \in members)

C18_Witness ==
    /\ Matched
    /\ pattern_parser.text = <<91, 97, 45, 99, 93>>
    /\ matching.value = <<98>>
    /\ matching.is_match

\* C19: the token compiled from ![G] matches a character iff the token
\* compiled from [G] does not, and only the group right after the `!` is
\* negated: in ![a-c][a-c] the second group is a one-of token.
C19_NegationInverts ==
    /\ (Parsed /\ IsNegatedGroup(pattern_parser.text)) =>
          LET plain == parse(Tail(pattern_parser.text), pattern_parser.inclusive)
              n == Len(plain.pattern)
          IN /\ plain.status = pattern_parser.status
             /\ Len(pattern_parser.pattern) = n
             /\ n > 0 =>
                   \A c \in SingleChars :
                       match_single(c, pattern_parser.pattern[n])
                           <=> ~match_single(c, plain.pattern[n])
    /\ (Compiled /\ pattern_parser.text =
                       <<33, 91, 97, 45, 99, 93, 91, 97, 45, 99, 93>>) =>
          /\ pattern_parser.pattern[1] = NotOneOf({97, 98, 99})
          /\ pattern_parser.pattern[2] = OneOf({97, 98, 99})

-----------------------------------------------------------------------------
(* C20: the remaining count                                                *)

\* the frame pushed for the directory at `path`
FrameOf(path) ==
    LET k == CHOOSE k \in DOMAIN pushed : pushed[k].dir = path
    IN pushed[k].frame

\* the children of the directory at `path` yielded before the i-th result
YieldedBefore(path, i) ==
    {j \in 2 .. (i - 1) : ParentPath(yielded[j].dent) = path}

\* C20: the first result is (1, root) with depth 0, and every later result
\* carries the number of children of its frame not yet yielded, itself
\* included: the k children of a directory carry k, k-1, .., 1 in yield
\* order and 1 marks the last sibling.
C20_RemainingCountsSiblings ==
    /\ yielded # <<>> =>
          /\ yielded[1].remaining = 1
          /\ yielded[1].dent.path = <<Root>>
          /\ yielded[1].dent.depth = 0
    /\ \A i \in 2 .. Len(yielded) :
          LET e == yielded[i].dent
              dir == ParentPath(e)
          IN /\ WasExpanded([path |-> dir])
             /\ LET frame == FrameOf(dir)
                    k == Len(frame)
                IN /\ yielded[i].remaining = k - Cardinality(YieldedBefore(dir, i))
                   /\ yielded[i].remaining \in 1 .. k
                   /\ frame[k - yielded[i].remaining + 1].path = e.path
                   /\ yielded[i].remaining = 1 <=> frame[k].path = e.path

C20_Witness ==
    \E i, j \in 2 .. Len(yielded) :
        /\ i < j
        /\ ParentPath(yielded[i].dent) = ParentPath(yielded[j].dent)
        /\ yielded[i].remaining = 2
        /\ yielded[j].remaining = 1
        /\ \E m \in (i + 1) .. (j - 1) : yielded[m].dent.depth > yielded[i].dent.depth

-----------------------------------------------------------------------------
(* C11, C12: the filters on file kind and on the name pattern              *)

PatternConfigured == pattern_parser.status = "pattern"

\* the nodes of the tree DirTree::new has returned
TreeNodes == {newTree[i].node : i \in DOMAIN newTree}

\* the children of the root in the tree DirTree::new has returned
TreeTopLevel == {newTree[i].node : i \in {j \in DOMAIN newTree : newTree[j].level = 0}}

\* C11: with dirs_only set and no pattern, every entry below the root that
\* the traversal delivers is a directory, whatever the other flags are
\* (visit_all, prune, the sort flags, max_depth).
C11_DirsOnlyYieldsDirectories ==
    (opts.dirs /\ ~PatternConfigured) =>
        /\ \A i \in 2 .. Len(yielded) : is_dir(yielded[i].dent)
        /\ newResult = "some" => \A n \in TreeNodes : ResolvesToDir(n)

\* the filters other than the pattern keep the child n of the root, and a
\* directory among them is neither cut by max_depth nor pruned
KeptButForPattern(o, n) ==
    /\ ClosureOutcome(o, NoPattern, n) # "drop"
    /\ ResolvesToDir(n) => (~o.prune /\ ~LevelCut(o, 1))

\* C12: with a pattern configured a child that is not a directory is kept
\* iff is_match(name) equals inclusive, and a child that is a directory is
\* never dropped by the pattern.
C12_PatternFilter ==
    (PatternConfigured /\ newResult = "some") =>
        \A n \in ChildrenOf(Root, fs) :
            KeptButForPattern(opts, n) =>
                IF ResolvesToDir(n) THEN n \in TreeTopLevel
                ELSE n \in TreeTopLevel <=>
                        (is_match(pattern_parser.pattern, NameOf(n))
                            = pattern_parser.inclusive)

-----------------------------------------------------------------------------
(* The walker on a file system with one failure                            *)

\* one directory below the root cannot be read, or the metadata of one
\* entry below the root cannot be had
SingleFaults(S) ==
    {[unreadable |-> {d}, nometa |-> {}] : d \in DirsOf(S) \ {Root}}
        \cup {[unreadable |-> {}, nometa |-> {n}] : n \in S \ {Root}}

InitFaults ==
    /\ fs \in Hierarchies
    /\ \E a \in BOOLEAN, md \in MaxDepthValues :
          opts = [DefaultFlags EXCEPT !.all = a, !.max_depth = md]
    /\ start = TRUE
    /\ dirent_list = <<>>
    /\ depth = 0
    /\ visited = {}
    /\ panic = "none"
    /\ yielded = <<>>
    /\ endAt = -1
    /\ extraCalls = 0
    /\ pushed = <<>>
    /\ newStack = <<>>
    /\ newResult = "idle"
    /\ newTree = <<>>
    /\ pattern_parser = NoPattern
    /\ matching = NoMatching
    /\ faults \in SingleFaults(fs)
    /\ env_args = NoArgs

SpecFaults == InitFaults /\ [][Next]_vars

-----------------------------------------------------------------------------
(* C21, C22: failures of the file system                                   *)

\* the nodes the loop over the walker has been given
SeenNodes == {NodeOfEntry(yielded[i].dent) : i \in SeenYields}

\* the walk has ended without a depth limit
WalkComplete == endAt # -1 /\ opts.max_depth = NoneVal

\* n lies beneath the directory d
Beneath(n, d) == \E k \in 1 .. (Len(RealPath(n)) - 1) : RealPath(n)[k] = d

\* C21: a directory whose contents cannot be read is yielded itself, has no
\* children, and does not abort the traversal: the entries that survive the
\* filters outside it are all yielded.
C21_UnreadableDirYieldsNoChildren ==
    \A d \in faults.unreadable :
        /\ panic # "read_dir"
        /\ \A n \in SeenNodes : ~Beneath(n, d)
        /\ WalkComplete =>
              \A n \in fs : (Survives(opts, n) /\ ~Beneath(n, d)) => n \in SeenNodes

\* C22: a child whose metadata cannot be had while its directory is expanded
\* is dropped alone: the traversal does not abort and every other surviving
\* child is yielded.
C22_NoMetadataDropsChildOnly ==
    \A c \in faults.nometa :
        /\ panic # "metadata"
        /\ c \notin SeenNodes
        /\ WalkComplete =>
              \A n \in fs :
                  (Survives(opts, n) /\ n # c /\ ~Beneath(n, c)) => n \in SeenNodes

-----------------------------------------------------------------------------
(* Argument pre-processing: Tree::process_opts of src/core/tree.rs and     *)
(* Cmd::process_args of src/cli/flags.rs, which are the same function.     *)
(* An argument is a sequence of code points.                               *)

\* argument lists hold at most MaxArgs arguments
MaxArgs == 3

\* -a  -ad  -aL  --prune  2  src
ArgWords ==
    { <<HYPHEN, 97>>, <<HYPHEN, 97, 100>>, <<HYPHEN, 97, 76>>,
      <<HYPHEN, HYPHEN, 112, 114, 117, 110, 101>>, <<50>>, <<115, 114, 99>> }

\* the partition predicate: a single-hyphen flag longer than two characters
NeedsProcessing(flag) ==
    /\ ~(Len(flag) >= 2 /\ flag[1] = HYPHEN /\ flag[2] = HYPHEN)
    /\ Len(flag) >= 1 /\ flag[1] = HYPHEN
    /\ Len(flag) > 2

IsReady(flag) == ~NeedsProcessing(flag)

\* flag.chars().skip(1).map(|ch| format!("-{ch}"))
SplitFlag(flag) == [i \in 1 .. (Len(flag) - 1) |-> <<HYPHEN, flag[i + 1]>>]

\* flat_map of SplitFlag over the flags
RECURSIVE SplitAll(_)
SplitAll(flags) ==
    IF flags = <<>> THEN <<>> ELSE SplitFlag(Head(flags)) \o SplitAll(Tail(flags))

\* process_opts / process_args
process_opts(args) ==
    LET additional_processing == SelectSeq(args, NeedsProcessing)
        ready == SelectSeq(args, IsReady)
    IN IF additional_processing # <<>>
       THEN SplitAll(additional_processing) \o ready
       ELSE ready

ProcessOpts ==
    /\ env_args.status = "idle"
    /\ env_args' = [env_args EXCEPT !.status = "done",
                                    !.output = process_opts(env_args.input)]
    /\ UNCHANGED <<fs, opts, faults, walkerVars, builderVars, patternVars>>

InitArgs ==
    /\ fs = {Root}
    /\ opts = DefaultFlags
    /\ start = TRUE
    /\ dirent_list = <<>>
    /\ depth = 0
    /\ visited = {}
    /\ panic = "none"
    /\ yielded = <<>>
    /\ endAt = -1
    /\ extraCalls = 0
    /\ pushed = <<>>
    /\ newStack = <<>>
    /\ newResult = "idle"
    /\ newTree = <<>>
    /\ pattern_parser = NoPattern
    /\ matching = NoMatching
    /\ faults = NoFaults
    /\ \E input \in SeqsUpTo(ArgWords, MaxArgs) :
          env_args = [NoArgs EXCEPT !.input = input]

NextArgs == ProcessOpts

SpecArgs == InitArgs /\ [][NextArgs]_vars

\* the list with every combined flag replaced where it stands
RECURSIVE ReplacedInPlace(_)
ReplacedInPlace(args) ==
    IF args = <<>> THEN <<>>
    ELSE (IF NeedsProcessing(Head(args)) THEN SplitFlag(Head(args))
          ELSE <<Head(args)>>) \o ReplacedInPlace(Tail(args))

\* C23: pre-processing returns the list unchanged when it holds no combined
\* flag, and otherwise the list with each combined flag -xyz replaced where
\* it stands by -x, -y, -z, every other argument keeping its place.
C23_CombinedFlagsReplacedInPlace ==
    env_args.status = "done" =>
        /\ (\A i \in DOMAIN env_args.input : IsReady(env_args.input[i])) =>
              env_args.output = env_args.input
        /\ env_args.output = ReplacedInPlace(env_args.input)

-----------------------------------------------------------------------------
(* C24: completeness and order of the walk                                 *)

\* the path of entry a is a proper prefix of the path of entry b
IsDescendant(b, a) ==
    /\ Len(b.path) > Len(a.path)
    /\ SubSeq(b.path, 1, Len(a.path)) = a.path

\* the walk is over: next() has returned None or the process has panicked
WalkOver == endAt # -1 \/ panic # "none"

\* C24: without max_depth and with no symlink followed, every node beneath
\* the root that survives the filters, its ancestors surviving too, is
\* yielded exactly once, in depth-first pre-order: a directory before its
\* descendants, and all of its descendants before its next sibling.
C24_PreOrderComplete ==
    (opts.max_depth = NoneVal /\ ~opts.follow_symlinks) =>
        /\ \A i, j \in Yields :
              yielded[i].dent.path = yielded[j].dent.path => i = j
        /\ \A j \in 2 .. Len(yielded) :
              \E i \in 1 .. (j - 1) :
                  yielded[i].dent.path = ParentPath(yielded[j].dent)
        /\ \A i, k \in Yields :
              (i < k /\ ParentPath(yielded[i].dent) = ParentPath(yielded[k].dent)) =>
                  \A j \in Yields :
                      IsDescendant(yielded[j].dent, yielded[i].dent) => j < k
        /\ WalkOver =>
              \A n \in fs :
                  Survives(opts, n) =>
                      \E i \in Yields : yielded[i].dent.path = RealPath(n)

-----------------------------------------------------------------------------
(* C25: depth bookkeeping                                                  *)

\* C25: the root has depth 0; every entry held in the frame at index i
\* (from 0) has depth i + 1, one more than the depth of the directory it
\* was read from; from one yield to the next the depth rises by at most 1,
\* and only when the earlier entry is a directory that was expanded.
C25_DepthBookkeeping ==
    /\ yielded # <<>> => yielded[1].dent.depth = 0
    /\ \A k \in DOMAIN dirent_list :
          \A m \in DOMAIN dirent_list[k] :
              /\ dirent_list[k][m].depth = k
              /\ dirent_list[k][m].depth = PathDepth(dirent_list[k][m])
    /\ \A k \in DOMAIN pushed :
          \A m \in DOMAIN pushed[k].frame :
              pushed[k].frame[m].depth = pushed[k].depth + 1
    /\ \A j \in 1 .. (Len(yielded) - 1) :
          /\ yielded[j + 1].dent.depth <= yielded[j].dent.depth + 1
          /\ yielded[j + 1].dent.depth > yielded[j].dent.depth =>
                /\ is_dir(yielded[j].dent)
                      \/ KindOf(TargetOf(NodeOfEntry(yielded[j].dent))) = "dir"
                /\ WasExpanded(yielded[j].dent)

C25_Witness ==
    /\ Len(dirent_list) >= 2
    /\ dirent_list[1] # <<>>
    /\ dirent_list[2] # <<>>
    /\ \E j \in 2 .. (Len(yielded) - 1) :
          yielded[j + 1].dent.depth = yielded[j].dent.depth + 1

-----------------------------------------------------------------------------
(* The display of a built tree: VISITED and the recursion mark             *)

\* the `..` component of a path; every other component is a node
DotDot == 0

\* fs::read_link(&path): the text stored in the link.  up holds the
\* canonical path of z; s holds a path to .h that goes through z
\*    r/z/y/up -> /r/z
\*    r/z/s    -> /r/z/../.h
LinkText(n) ==
    IF n = 12 THEN RealPath(ParentOf(n)) \o <<DotDot, TargetOf(n)>>
    ELSE RealPath(TargetOf(n))

\* Path::canonicalize of a path whose components are directories or `..`
RECURSIVE canonicalize_from(_, _)
canonicalize_from(acc, rest) ==
    IF rest = <<>> THEN acc
    ELSE IF Head(rest) = DotDot
         THEN canonicalize_from(SubSeq(acc, 1, Len(acc) - 1), Tail(rest))
    ELSE canonicalize_from(Append(acc, Head(rest)), Tail(rest))

canonicalize(path) == canonicalize_from(<<>>, path)

\* Contents::get_path of a directory that is not a link: the canonical
\* path DirTree::new stores
get_path(n) == canonicalize(RealPath(n))

\* Contents::get_linked_path of a link to a directory: the canonical path
\* of the directory that was read when the link was followed
\* (set_linked_path), the text of the link when it was not
get_linked_path(o, n) ==
    IF o.follow_symlinks THEN canonicalize(LinkText(n)) ELSE LinkText(n)

\* display_tree over the lines of the tree from line i on: VISITED, the
\* level of the link whose children are not displayed (NoneVal when every
\* line is displayed) and the lines written so far, each with its mark
RECURSIVE display_tree(_, _, _, _, _, _)
display_tree(o, lines, i, VISITED, hidden_below, out) ==
    IF i > Len(lines) THEN out
    ELSE LET child == lines[i]
             n == child.node
         IN IF hidden_below # NoneVal /\ child.level > hidden_below
            THEN display_tree(o, lines, i + 1, VISITED, hidden_below, out)
            ELSE IF KindOf(n) = "symlink"
                 THEN LET p == get_linked_path(o, n)
                          mark == IF p \in VISITED THEN "recursion" ELSE "link"
                      IN display_tree(o, lines, i + 1, VISITED,
                             IF p \in VISITED THEN child.level ELSE NoneVal,
                             Append(out, [node |-> n, mark |-> mark]))
            ELSE IF KindOf(n) = "dir"
                 THEN display_tree(o, lines, i + 1, VISITED \cup {get_path(n)},
                                   NoneVal, Append(out, [node |-> n, mark |-> "dir"]))
            ELSE display_tree(o, lines, i + 1, VISITED, NoneVal,
                              Append(out, [node |-> n, mark |-> "file"]))

\* <DirTree as Display>::fmt: the path of the root is visited first
fmt(o, lines) == display_tree(o, lines, 1, {get_path(Root)}, NoneVal, <<>>)

\* C26: when the tree is displayed, a link to a directory that was already
\* displayed (the root, or a directory on an earlier line), whichever way
\* the text of the link spells its path, carries the recursion mark.
C26_CycleCheckByIdentity ==
    newResult = "some" =>
        LET out == fmt(opts, newTree)
        IN \A j \in DOMAIN out :
              (/\ KindOf(out[j].node) = "symlink"
               /\ \/ TargetOf(out[j].node) = Root
                  \/ \E i \in 1 .. (j - 1) :
                        /\ out[i].mark = "dir"
                        /\ out[i].node = TargetOf(out[j].node))
              => out[j].mark = "recursion"

-----------------------------------------------------------------------------
(* C27: the end of the sequence                                            *)

\* C27: once next() has returned None no entry is yielded by a later call,
\* and when the first None is returned the frame stack is empty and no
\* root is pending.
C27_StaysFinished ==
    endAt # -1 =>
        /\ Len(yielded) = endAt
        /\ extraCalls = 0 => (dirent_list = <<>> /\ ~start)

-----------------------------------------------------------------------------
(* C28, C29: is_match against the reading of the pattern                   *)

\* every token of the compiled pattern is a Literal
LiteralOnly(tokens) == \A i \in DOMAIN tokens : tokens[i].type = "Literal"

\* no token of the compiled pattern is OneOrMore: each token stands for
\* exactly one character
NoOneOrMore(tokens) == \A i \in DOMAIN tokens : tokens[i].type # "OneOrMore"

\* C28: a pattern of literal tokens matches a candidate iff the candidate
\* is the pattern text, and a pattern without * matches no candidate that
\* has more characters than the pattern has tokens.
C28_WholeCandidateConsumed ==
    (Compiled /\ Matched) =>
        /\ LiteralOnly(pattern_parser.pattern) =>
              (matching.is_match <=> matching.value = pattern_parser.text)
        /\ (NoOneOrMore(pattern_parser.pattern) /\ matching.is_match) =>
              Len(matching.value) = Len(pattern_parser.pattern)

\* the pattern holds only literals, ? and *
PlainTokens(tokens) ==
    \A i \in DOMAIN tokens : tokens[i].type \in {"Literal", "One", "OneOrMore"}

\* the declarative reading: the tokens from pi on fit the candidate from vi
\* to its end, a * standing for a run of one or more characters and every
\* other token for one character it admits
RECURSIVE Fits(_, _, _, _)
Fits(tokens, value, pi, vi) ==
    IF pi > Len(tokens) THEN vi = Len(value) + 1
    ELSE IF tokens[pi].type = "OneOrMore"
         THEN \E run \in 1 .. (Len(value) - vi + 1) :
                  Fits(tokens, value, pi + 1, vi + run)
    ELSE /\ vi <= Len(value)
         /\ tokens[pi].type = "Literal" => value[vi] \in tokens[pi].chars
         /\ Fits(tokens, value, pi + 1, vi + 1)

\* C29: for a pattern over literals, ? and *, when some choice of run
\* lengths for the * tokens makes the tokens fit the candidate, is_match
\* returns true.
C29_AgreesWithDeclarativeReading ==
    (Compiled /\ Matched /\ PlainTokens(pattern_parser.pattern)) =>
        (Fits(pattern_parser.pattern, matching.value, 1, 1) => matching.is_match)

-----------------------------------------------------------------------------
(* The renderer: the loop of main over the results of the walker           *)

T_RIGHT == "T_RIGHT"
L_RIGHT == "L_RIGHT"

\* `if remaining > 1 { T_RIGHT } else { L_RIGHT }`
connector(remaining) == IF remaining > 1 THEN T_RIGHT ELSE L_RIGHT

\* left.insert(*depth) when siblings remain, left.remove(depth) otherwise
left_afterKeepsLevel(left, d, remaining) ==
    IF remaining > 1 THEN left \cup {d} ELSE left
left_after(left, d, remaining) ==
    IF remaining > 1 THEN left \cup {d} ELSE left \ {d}

\* the levels below *depth at which VERTICAL_PIPE is pushed
outer_connectors(left, d) == {level \in 1 .. (d - 1) : level \in left}

\* the body of `for (remaining, entry) in tree` from result i on: the
\* line written for each result and the levels kept in `left`
RECURSIVE print_from(_, _, _, _)
print_from(results, i, left, ret) ==
    IF i > Len(results) THEN ret
    ELSE LET d == results[i].dent.depth
             remaining == results[i].remaining
         IN IF d = 0
            THEN print_from(results, i + 1, left,
                            Append(ret, [pipes |-> {}, connector |-> "name"]))
            ELSE print_from(results, i + 1, left_after(left, d, remaining),
                            Append(ret, [pipes |-> outer_connectors(left, d),
                                         connector |-> connector(remaining)]))

\* the lines written for the results the loop receives: those before the
\* first None
Printed ==
    print_from(SubSeq(yielded, 1, Cardinality(SeenYields)), 1, {}, <<>>)

\* the entry with this path is followed by another entry in the frame
\* its directory was expanded into
HasLaterSiblings(path) ==
    \E k \in DOMAIN pushed :
        \E m \in DOMAIN pushed[k].frame :
            /\ pushed[k].frame[m].path = path
            /\ m < Len(pushed[k].frame)

\* the ancestor at depth l of an entry: the prefix of its path
AncestorAt(e, l) == SubSeq(e.path, 1, l + 1)

\* C30: on the line of an entry at depth d >= 1 a vertical pipe is drawn at
\* level l < d iff the entry's ancestor at depth l has later siblings in
\* its frame, and the last-sibling corner is drawn iff the entry is the
\* last of its frame.
C30_ConnectorsFollowWalk ==
    \A j \in DOMAIN Printed :
        LET e == yielded[j].dent
        IN e.depth >= 1 =>
              /\ \A l \in 1 .. (e.depth - 1) :
                    l \in Printed[j].pipes <=> HasLaterSiblings(AncestorAt(e, l))
              /\ Printed[j].connector = L_RIGHT <=> ~HasLaterSiblings(e.path)

\* a line at depth 3 whose parent is the last of its frame and was printed
\* after an earlier sibling: level 2 was put into `left` and taken out
C30_Witness ==
    \E j \in DOMAIN Printed :
        LET e == yielded[j].dent
        IN /\ e.depth = 3
           /\ 2 \notin Printed[j].pipes
           /\ Printed[j].connector = L_RIGHT
           /\ \E i \in 1 .. (j - 1) :
                 /\ yielded[i].dent.depth = 2
                 /\ yielded[i].remaining > 1

====
